---- MODULE Spec2Model ----
(***************************************************************************)
(* A model of the product comparison pipeline of model/scraper.py:         *)
(*   - process_and_compare_products: imputation, relevance, min-max        *)
(*     normalisation, weighted score, sort, rank, best-by-source;          *)
(*   - search_and_compare: two adapter tasks on a thread pool, joined in   *)
(*     the order the futures are read.                                     *)
(*                                                                         *)
(* Numbers.  The code computes in binary floating point; the model         *)
(* computes the same expressions exactly, as fractions [num, den] of       *)
(* integers.  A NaN is the fraction with den = 0.  Weights are counted in  *)
(* tenths (0.4 is 4).  A reported score is counted in hundredths           *)
(* (57.25 is 5725).                                                        *)
(***************************************************************************)
EXTENDS Integers, Sequences, FiniteSets, TLC

\* Python's None in the 'price' field of a record (scraper.py _clean_price).
\* Prices are non-negative, so the value stands apart from every price.
None == -1

\* Bounds of the model.
MaxRecords == 3      \* records per source in a batch handed to the ranking
MaxElems == 2        \* result elements on one source's page
MaxBatch == 3        \* records of a batch in the feature specification
MaxOwnBatch == 2     \* records of a batch of one of two concurrent calls
MaxText == 4         \* characters of a text handed to a cleaning function

VARIABLES
  session_state,     \* st.session_state: whether 'weights' is set, and to what
  tie_order,         \* how this build's quicksort leaves rows of equal score
  all_products,      \* the batch handed to process_and_compare_products
  query,             \* the search query
  result,            \* what the last call returned
  prev_result,       \* what the call before it returned
  calls,             \* calls of process_and_compare_products so far
  frame,             \* the last call's df, as it stood at the sort
  prev_frame,        \* the df of the call before it
  weight_factor,     \* by how much the caller has multiplied the weights
  pc,                \* where search_and_compare stands
  a_pc,              \* where the search_amazon task stands
  driver,            \* the Chrome driver of search_amazon: none, open, quit
  a_raised,          \* the step of search_amazon that raised, if any
  amazon_page,       \* the result elements the Amazon page held
  a_products,        \* search_amazon's products list
  s_pc,              \* where the search_snapdeal task stands
  attempt,           \* search_snapdeal's attempts made so far
  s_gave_up,         \* search_snapdeal ran out of attempts
  s_sleeps,          \* search_snapdeal's time.sleep(5) calls after a raise
  s_requests,        \* search_snapdeal's requests.get calls
  s_delays,          \* search_snapdeal's random delays ahead of a request
  s_status,          \* how the last request ended: "200", "other", "raised"
  snapdeal_page,     \* the result elements the Snapdeal page held
  s_products,        \* search_snapdeal's products list
  amazon_future,     \* the future of the search_amazon task
  snapdeal_future,   \* the future of the search_snapdeal task
  amazon_products,   \* search_and_compare's local
  snapdeal_products, \* search_and_compare's local
  finished,          \* the adapters in the order their tasks finished
  searches,          \* the locals of the ranking calls that run side by side
  price_str,         \* the text handed to _clean_price, a sequence of characters
  price_out,         \* what _clean_price returned
  rating_str,        \* the rating text or style attribute of an element
  rating_out,        \* the rating an adapter made of it
  products,          \* prices.db: the rows of the products table
  price_history,     \* prices.db: the rows of price_history, oldest first
  price_alerts,      \* prices.db: the rows of price_alerts
  next_alert_id,     \* the id AUTOINCREMENT gives the next alert
  last_op,           \* the last PriceTracker call and what it returned
  stale_conn,        \* a failed save left its connection open, mid-transaction
  users,             \* users.db: the rows of the users table
  user_preferences,  \* users.db: the user ids with a user_preferences row
  saved_products,    \* users.db: the rows of saved_products
  user_search_history, \* users.db: the rows of search_history, oldest first
  next_user_id,      \* stands for the next uuid4 register_user draws
  pending,           \* the call that has passed its checks and not yet written
  account_op,        \* what the last UserAccount step did and returned
  users_stale,       \* a failed write left its connection open on users.db
  search_history,    \* st.session_state.search_history of the page
  now                \* the clock pd.Timestamp.now() reads, in searches made

rank_vars ==
  <<session_state, tie_order, all_products, query, result, prev_result, calls,
    frame, prev_frame, weight_factor>>

amazon_vars == <<a_pc, driver, a_raised, amazon_page, a_products, amazon_future>>

snapdeal_vars ==
  <<s_pc, attempt, s_gave_up, s_sleeps, s_requests, s_delays, s_status,
    snapdeal_page, s_products, snapdeal_future>>

main_vars == <<pc, amazon_products, snapdeal_products>>

clean_vars == <<price_str, price_out, rating_str, rating_out>>

tracker_vars ==
  <<products, price_history, price_alerts, next_alert_id, last_op,
    stale_conn>>

account_vars ==
  <<users, user_preferences, saved_products, user_search_history,
    next_user_id, pending, account_op, users_stale>>

app_vars == <<search_history, now>>

\* The variables of everything but the search and the ranking.
other_vars == <<clean_vars, tracker_vars, account_vars, app_vars>>

\* The variables of the search and the ranking.
scraper_vars == <<rank_vars, amazon_vars, snapdeal_vars, main_vars, finished, searches>>

\* What the cleaning functions and the PriceTracker leave alone.
not_clean_vars == <<scraper_vars, tracker_vars, account_vars, app_vars>>
not_tracker_vars == <<scraper_vars, clean_vars, account_vars, app_vars>>
not_account_vars == <<scraper_vars, clean_vars, tracker_vars, app_vars>>
not_app_vars == <<scraper_vars, clean_vars, tracker_vars, account_vars>>

vars == <<scraper_vars, other_vars>>

----------------------------------------------------------------------------
(* Helpers on sequences of integers.                                        *)

RECURSIVE SumSeq(_)
SumSeq(s) == IF s = <<>> THEN 0 ELSE Head(s) + SumSeq(Tail(s))

Range(s) == {s[i] : i \in DOMAIN s}

MaxOf(S) == CHOOSE x \in S : \A y \in S : y <= x
MinOf(S) == CHOOSE x \in S : \A y \in S : x <= y

SeqsUpTo(S, n) == UNION {[1..k -> S] : k \in 0..n}

----------------------------------------------------------------------------
(* ECommerceComparisonModel.__init__: the weights.                          *)

WeightScale == 10

DefaultWeights ==
  [price |-> 4, ratings |-> 3, reviews |-> 2, description_relevance |-> 1]

\* self.weights, as __init__ sets it.
self_weights ==
  IF session_state.has_weights THEN session_state.weights ELSE DefaultWeights

----------------------------------------------------------------------------
(* process_and_compare_products, step by step.  A batch is a sequence of    *)
(* records [title, price, rating, reviews, link, image, source,            *)
(* description]; a data frame is the same sequence, its rows labelled by    *)
(* their position in the batch (the frame's index).                        *)

\* The absent prices filled with 0, as the ratings and the reviews are.
price_fillna_zero(batch) ==
  LET present == {i \in DOMAIN batch : batch[i].price # None}
      k == Cardinality(present)
  IN  [i \in DOMAIN batch |->
         IF k = 0 THEN [num |-> 0, den |-> 0]
         ELSE IF batch[i].price = None THEN [num |-> 0, den |-> k]
         ELSE [num |-> batch[i].price * k, den |-> k]]

\* df['price'].fillna(df['price'].mean()).  The mean skips the absent
\* prices; with k prices present it is total / k, and every filled price is
\* written over the common denominator k.  With no price present the mean is
\* NaN and fillna(NaN) leaves every price NaN.
price_fillna(batch) ==
  LET present == {i \in DOMAIN batch : batch[i].price # None}
      k == Cardinality(present)
      total == SumSeq([i \in DOMAIN batch |->
                         IF batch[i].price = None THEN 0 ELSE batch[i].price])
  IN  [i \in DOMAIN batch |->
         IF k = 0 THEN [num |-> 0, den |-> 0]
         ELSE IF batch[i].price = None THEN [num |-> total, den |-> k]
         ELSE [num |-> batch[i].price * k, den |-> k]]

\* TfidfVectorizer's tokens of a text.  The texts of the model hold at most
\* one token each (the empty text holds none).
tokens(text) == IF text = "" THEN {} ELSE {text}

\* The tf-idf relevance of every description to the query.  fit_transform
\* raises on an empty vocabulary and the except branch sets 1.0 everywhere.
\* Otherwise a one-token description is the unit vector of its token, the
\* query is the unit vector of its token when the vocabulary has it and the
\* zero vector when not, and the cosine similarity is 1 or 0.
description_relevance(batch, q) ==
  LET vocabulary == UNION {tokens(batch[i].description) : i \in DOMAIN batch}
  IN  [i \in DOMAIN batch |->
         IF vocabulary = {} THEN 1
         ELSE IF tokens(batch[i].description) \cap tokens(q) # {} THEN 1
         ELSE 0]

\* The same with the range taken over the ratings of every call under way
\* as well, as a range kept in one place for all calls would be.
norm_higher_better_shared(col) ==
  LET pool == Range(col) \cup
                UNION {{searches[n].df[i].rating : i \in DOMAIN searches[n].df} :
                         n \in DOMAIN searches}
      mx == MaxOf(pool)
      mn == MinOf(pool)
  IN  [i \in DOMAIN col |->
         IF mx # mn THEN [num |-> col[i] - mn, den |-> mx - mn]
         ELSE [num |-> 1, den |-> 1]]

\* x / max over a column: the minimum is not brought to 0.
norm_higher_better_by_max(col) ==
  LET mx == MaxOf(Range(col))
      mn == MinOf(Range(col))
  IN  [i \in DOMAIN col |->
         IF mx # mn THEN [num |-> col[i], den |-> mx]
         ELSE [num |-> 1, den |-> 1]]

\* (x - min) / (max - min) over a column, 1.0 when max = min.
norm_higher_better(col) ==
  LET mx == MaxOf(Range(col))
      mn == MinOf(Range(col))
  IN  [i \in DOMAIN col |->
         IF mx # mn THEN [num |-> col[i] - mn, den |-> mx - mn]
         ELSE [num |-> 1, den |-> 1]]

\* The price column normalised with the higher price the better.
norm_lower_better_uninverted(col) ==
  LET nums == [i \in DOMAIN col |-> col[i].num]
      mx == MaxOf(Range(nums))
      mn == MinOf(Range(nums))
  IN  [i \in DOMAIN col |->
         IF col[i].den = 0 THEN [num |-> 0, den |-> 0]
         ELSE IF mx # mn THEN [num |-> nums[i] - mn, den |-> mx - mn]
         ELSE [num |-> 1, den |-> 1]]

\* 1 - (x - min) / (max - min) over the price column, 1.0 when max = min.
\* The filled prices share their denominator, which cancels.  A column of
\* NaN has max = min = NaN, NaN != NaN is true, and the quotient is NaN.
norm_lower_better(col) ==
  LET nums == [i \in DOMAIN col |-> col[i].num]
      mx == MaxOf(Range(nums))
      mn == MinOf(Range(nums))
  IN  [i \in DOMAIN col |->
         IF col[i].den = 0 THEN [num |-> 0, den |-> 0]
         ELSE IF mx # mn THEN [num |-> (mx - mn) - (nums[i] - mn), den |-> mx - mn]
         ELSE [num |-> 1, den |-> 1]]

\* The weighted sum divided by the sum of the weights.
weighted_score_normalised(pn, rn, vn, ln, w) ==
  IF pn.den = 0 THEN [num |-> 0, den |-> 0]
  ELSE [num |-> pn.num * w.price * rn.den * vn.den * ln.den
                + rn.num * w.ratings * pn.den * vn.den * ln.den
                + vn.num * w.reviews * pn.den * rn.den * ln.den
                + ln.num * w.description_relevance * pn.den * rn.den * vn.den,
        den |-> (w.price + w.ratings + w.reviews + w.description_relevance)
                * pn.den * rn.den * vn.den * ln.den]

\* df['score']: the weighted sum of the four normalised columns, as one
\* fraction.  A NaN term makes the sum NaN.
weighted_score(pn, rn, vn, ln, w) ==
  IF pn.den = 0 THEN [num |-> 0, den |-> 0]
  ELSE [num |-> pn.num * w.price * rn.den * vn.den * ln.den
                + rn.num * w.ratings * pn.den * vn.den * ln.den
                + vn.num * w.reviews * pn.den * rn.den * ln.den
                + ln.num * w.description_relevance * pn.den * rn.den * vn.den,
        den |-> WeightScale * pn.den * rn.den * vn.den * ln.den]

\* The frame after the score column is added (lines 278-317).
scored_frame(batch, q) ==
  LET price == price_fillna(batch)
      relevance == description_relevance(batch, q)
      price_norm == norm_lower_better(price)
      rating_norm == norm_higher_better([i \in DOMAIN batch |-> batch[i].rating])
      reviews_norm == norm_higher_better([i \in DOMAIN batch |-> batch[i].reviews])
      relevance_norm == norm_higher_better(relevance)
  IN  [i \in DOMAIN batch |->
         [index |-> i,
          title |-> batch[i].title,
          price |-> price[i],
          rating |-> batch[i].rating,
          reviews |-> batch[i].reviews,
          source |-> batch[i].source,
          link |-> batch[i].link,
          image |-> batch[i].image,
          description_relevance |-> relevance[i],
          price_norm |-> price_norm[i],
          rating_norm |-> rating_norm[i],
          reviews_norm |-> reviews_norm[i],
          description_relevance_norm |-> relevance_norm[i],
          score |-> weighted_score(price_norm[i], rating_norm[i], reviews_norm[i],
                                   relevance_norm[i], self_weights)]]

\* Fractions of one frame share their denominator, so the numerators order
\* the scores.
score_less(a, b) == a.score.num < b.score.num

\* A sort whose order of equal scores changes from one call to the next.
sorts_before_by_call(a, b) ==
  \/ score_less(b, a)
  \/ /\ ~score_less(a, b)
     /\ IF calls = 0 THEN a.index < b.index ELSE a.index > b.index

\* Where the sort puts row a before row b.  Higher score first; NaN scores
\* are set apart and appended in index order; rows of equal score come out
\* in the order this build's quicksort leaves them.
sorts_before(a, b) ==
  \/ score_less(b, a)
  \/ /\ ~score_less(a, b)
     /\ IF a.score.den = 0 \/ tie_order = "input"
        THEN a.index < b.index
        ELSE a.index > b.index

\* df.sort_values('score', ascending=False), on the set of rows.
RECURSIVE sort_rows(_)
sort_rows(rows) ==
  IF rows = {} THEN <<>>
  ELSE LET first == CHOOSE r \in rows : \A o \in rows \ {r} : sorts_before(r, o)
       IN  <<first>> \o sort_rows(rows \ {first})

sort_values(df) == sort_rows(Range(df))

\* round(x, 2) of 100 times a fraction, in hundredths: the nearest integer to
\* 10000 * num / den, a half going to the even neighbour.  The quotient is
\* taken two decimal digits at a time.  NaN stays NaN, written None.
\* The score cut after two decimals instead of rounded.
round_score_truncated(s) ==
  IF s.den = 0 THEN None
  ELSE (s.num * 100 * 100) \div s.den

round_score(s) ==
  IF s.den = 0 THEN None
  ELSE LET q1 == (s.num * 100) \div s.den
           r1 == (s.num * 100) % s.den
           q2 == (r1 * 100) \div s.den
           rem == (r1 * 100) % s.den
           quot == q1 * 100 + q2
       IN  IF 2 * rem > s.den THEN quot + 1
           ELSE IF 2 * rem < s.den THEN quot
           ELSE IF quot % 2 = 0 THEN quot ELSE quot + 1

\* The rank taken from the row's place in the batch, as when the rank column
\* is added before the sort.
ranked_results_before_sort(df) ==
  [i \in DOMAIN df |->
     [rank |-> df[i].index,
      title |-> df[i].title,
      price |-> df[i].price,
      rating |-> df[i].rating,
      reviews |-> df[i].reviews,
      score |-> round_score(df[i].score),
      source |-> df[i].source,
      link |-> df[i].link,
      image |-> df[i].image,
      index |-> df[i].index]]

\* df['rank'] = range(1, len(df) + 1), and the result dictionaries built from
\* the rows in frame order (lines 323-338).  'index' is the row's label in
\* the frame, kept beside the fields the code copies so that a result can be
\* traced to its place in the batch.
ranked_results(df) ==
  [i \in DOMAIN df |->
     [rank |-> i,
      title |-> df[i].title,
      price |-> df[i].price,
      rating |-> df[i].rating,
      reviews |-> df[i].reviews,
      score |-> round_score(df[i].score),
      source |-> df[i].source,
      link |-> df[i].link,
      image |-> df[i].image,
      index |-> df[i].index]]

\* The best_by_source dictionary's values in insertion order: the first
\* result of each source, walking the results in order.
RECURSIVE best_by_source_walk(_, _)
best_by_source_walk(results, seen) ==
  IF results = <<>> THEN <<>>
  ELSE IF Head(results).source \in seen
       THEN best_by_source_walk(Tail(results), seen)
       ELSE <<Head(results)>>
            \o best_by_source_walk(Tail(results), seen \cup {Head(results).source})

\* The dictionary entry overwritten at every result: the last result of each
\* source stays.
RECURSIVE best_by_source_overwrite(_)
best_by_source_overwrite(results) ==
  IF results = <<>> THEN <<>>
  ELSE IF \E k \in DOMAIN Tail(results) :
            Tail(results)[k].source = Head(results).source
       THEN best_by_source_overwrite(Tail(results))
       ELSE <<Head(results)>> \o best_by_source_overwrite(Tail(results))

best_by_source(results) == best_by_source_walk(results, {})

\* results[:5]
TopCount == 5

\* results[:4]
top_results_short(results) ==
  IF Len(results) <= TopCount - 1 THEN results
  ELSE SubSeq(results, 1, TopCount - 1)

top_results(results) ==
  IF Len(results) <= TopCount THEN results ELSE SubSeq(results, 1, TopCount)

\* The keys lines 313-316 read from self.weights.
WeightKeys == {"price", "ratings", "reviews", "description_relevance"}

\* A subscript of self.weights with a key it lacks raises KeyError.
weights_raise == ~(WeightKeys \subseteq DOMAIN self_weights)

\* The local df of a call: none for an empty batch (line 274), and lost
\* with the call when line 312 raises.
local_frame(batch, q) ==
  IF batch = <<>> \/ weights_raise THEN <<>> ELSE scored_frame(batch, q)

\* The returned dictionary.  A message is the tuple of its parts.  A call
\* that raises returns nothing: the exception is what its caller gets.
process_and_compare_products(batch, q) ==
  IF batch = <<>>
  THEN [message |-> <<"No products found">>, products |-> <<>>]
  ELSE IF weights_raise
  THEN [raised |-> "KeyError"]
  ELSE LET results == ranked_results(sort_values(scored_frame(batch, q)))
       IN  [message |-> <<"Found", Len(results), "products matching", q>>,
            top_results |-> top_results(results),
            best_by_source |-> best_by_source(results),
            all_products |-> results]

----------------------------------------------------------------------------
(* Inputs of the ranking specification.                                     *)

RawProduct(title, price, rating, reviews, link, source) ==
  [title |-> title, price |-> price, rating |-> rating, reviews |-> reviews,
   link |-> link, image |-> "", source |-> source, description |-> title]

\* Records search_amazon can emit: title and link are never empty.
AmazonRecords ==
  { RawProduct("shoe", 1, 4, 0, "a/1", "Amazon"),
    RawProduct("lamp", None, 0, 0, "a/2", "Amazon"),
    RawProduct("shoe", 2, 4, 1, "a/3", "Amazon") }

\* Records search_snapdeal can emit: title and link may be empty.
SnapdealRecords ==
  { RawProduct("shoe", 1, 4, 1, "s/1", "Snapdeal"),
    RawProduct("", None, 5, 0, "", "Snapdeal"),
    RawProduct("lamp", 2, 5, 5000, "s/3", "Snapdeal") }

Queries == {"shoe", "lamp"}

CallerWeights ==
  { [price |-> 10, ratings |-> 0, reviews |-> 0, description_relevance |-> 0],
    [price |-> 1, ratings |-> 2, reviews |-> 3, description_relevance |-> 4] }

SessionStates ==
  {[has_weights |-> FALSE, weights |-> DefaultWeights]}
  \cup {[has_weights |-> TRUE, weights |-> w] : w \in CallerWeights}

TieOrders == {"input", "reversed"}

\* A batch is the Amazon records followed by the Snapdeal records, as both
\* callers build it (scraper.py line 364, app.py line 93).
Batches ==
  {a \o s : a \in SeqsUpTo(AmazonRecords, MaxRecords),
            s \in SeqsUpTo(SnapdealRecords, MaxRecords)}

NoResult == [pending |-> TRUE]

NoFuture == [done |-> FALSE, value |-> <<>>]

\* No text has been handed to a cleaning function.
CleanIdle ==
  /\ price_str = <<>> /\ price_out = NoResult
  /\ rating_str = <<>> /\ rating_out = NoResult

\* The three tables of prices.db.
TrackerDb ==
  [products |-> products, price_history |-> price_history,
   price_alerts |-> price_alerts]

\* _ensure_db_exists on a new file: the tables are empty.
TrackerIdle ==
  /\ products = {} /\ price_history = <<>> /\ price_alerts = {}
  /\ next_alert_id = 1
  /\ last_op = [name |-> "none", success |-> FALSE, product_id |-> "NULL",
                price |-> -1, user_id |-> "", alerts |-> {}]
  /\ stale_conn = FALSE

\* No call of UserAccount: no user, no detail of a call.
NoCall ==
  [op |-> "none", user_id |-> 0, username |-> "", email |-> "",
   password |-> ""]

\* _ensure_db_exists on a new file: the four tables are empty.
AccountIdle ==
  /\ users = {} /\ user_preferences = {} /\ saved_products = {}
  /\ user_search_history = <<>>
  /\ next_user_id = 1
  /\ pending = NoCall
  /\ account_op = [name |-> "none", success |-> FALSE, call |-> NoCall]
  /\ users_stale = FALSE

\* A new session: 'search_history' is not in st.session_state and is set
\* to the empty list.
AppIdle == search_history = <<>> /\ now = 1

\* Nothing but the search and the ranking has been used.
OtherIdle == CleanIdle /\ TrackerIdle /\ AccountIdle /\ AppIdle

\* No search_and_compare call is under way.
SearchIdle ==
  /\ pc = "idle"
  /\ a_pc = "new" /\ driver = "none" /\ a_raised = "none"
  /\ amazon_page = <<>> /\ a_products = <<>>
  /\ s_pc = "new" /\ attempt = 0 /\ s_gave_up = FALSE /\ s_sleeps = 0
  /\ s_requests = 0 /\ s_delays = 0 /\ s_status = "none"
  /\ snapdeal_page = <<>> /\ s_products = <<>>
  /\ amazon_future = NoFuture /\ snapdeal_future = NoFuture
  /\ amazon_products = <<>> /\ snapdeal_products = <<>>
  /\ finished = <<>>

Init ==
  /\ session_state \in SessionStates
  /\ tie_order \in TieOrders
  /\ all_products \in Batches
  /\ query \in Queries
  /\ result = NoResult
  /\ prev_result = NoResult
  /\ calls = 0
  /\ frame = <<>> /\ prev_frame = <<>> /\ weight_factor = 1
  /\ SearchIdle
  /\ OtherIdle
  /\ searches = <<>>

\* A caller constructs the model and calls process_and_compare_products on
\* the batch; then once more on the same batch.
Compare ==
  /\ calls = 0
  /\ result' = process_and_compare_products(all_products, query)
  /\ prev_result' = result
  /\ frame' = local_frame(all_products, query)
  /\ prev_frame' = frame
  /\ calls' = 1
  /\ UNCHANGED <<session_state, tie_order, all_products, query, weight_factor>>
  /\ UNCHANGED <<amazon_vars, snapdeal_vars, main_vars, finished>>
  /\ UNCHANGED <<searches, other_vars>>

CompareAgain ==
  /\ calls = 1
  /\ result' = process_and_compare_products(all_products, query)
  /\ prev_result' = result
  /\ frame' = local_frame(all_products, query)
  /\ prev_frame' = frame
  /\ calls' = 2
  /\ UNCHANGED <<session_state, tie_order, all_products, query, weight_factor>>
  /\ UNCHANGED <<amazon_vars, snapdeal_vars, main_vars, finished>>
  /\ UNCHANGED <<searches, other_vars>>

Next == Compare \/ CompareAgain

Spec == Init /\ [][Next]_vars

----------------------------------------------------------------------------
(* The feature specification: small batches over wider field values, and    *)
(* a caller that changes the weights between two calls.                     *)

\* Two records that differ in the price only, the same with the price
\* absent, and two records that differ from them in every feature.
FeatureRecords ==
  { RawProduct("shoe", 1, 4, 2, "p/1", "Amazon"),
    RawProduct("shoe", 2, 4, 2, "p/1", "Amazon"),
    RawProduct("shoe", None, 4, 2, "p/1", "Amazon"),
    RawProduct("lamp", 4, 0, 0, "p/2", "Amazon"),
    RawProduct("", None, 5, 1, "", "Snapdeal") }

FeatureBatches == SeqsUpTo(FeatureRecords, MaxBatch)

\* Weights a caller may store: the sum need not be 1 (ten tenths).
FeatureWeights ==
  { [price |-> 10, ratings |-> 0, reviews |-> 0, description_relevance |-> 0],
    [price |-> 3, ratings |-> 0, reviews |-> 0, description_relevance |-> 0],
    [price |-> 1, ratings |-> 2, reviews |-> 3, description_relevance |-> 1],
    [price |-> 0, ratings |-> 5, reviews |-> 5, description_relevance |-> 5] }

FeatureSessions ==
  {[has_weights |-> FALSE, weights |-> DefaultWeights]}
  \cup {[has_weights |-> TRUE, weights |-> w] : w \in FeatureWeights}

ScaleFactors == {2, 3}

scaled_weights(w, k) == [key \in DOMAIN w |-> k * w[key]]

InitFeatures ==
  /\ session_state \in FeatureSessions
  /\ tie_order \in TieOrders
  /\ all_products \in FeatureBatches
  /\ query \in Queries
  /\ result = NoResult
  /\ prev_result = NoResult
  /\ calls = 0
  /\ frame = <<>> /\ prev_frame = <<>> /\ weight_factor = 1
  /\ SearchIdle
  /\ OtherIdle
  /\ searches = <<>>

\* Between two calls the caller stores the weights in force multiplied by
\* a factor; the next model object reads them (lines 40-41).
ScaleWeights ==
  /\ calls = 1
  /\ weight_factor = 1
  /\ \E k \in ScaleFactors :
       /\ session_state' =
            [has_weights |-> TRUE, weights |-> scaled_weights(self_weights, k)]
       /\ weight_factor' = k
  /\ UNCHANGED <<tie_order, all_products, query, result, prev_result, calls,
                 frame, prev_frame>>
  /\ UNCHANGED <<amazon_vars, snapdeal_vars, main_vars, finished>>
  /\ UNCHANGED <<searches, other_vars>>

NextFeatures == Compare \/ ScaleWeights \/ CompareAgain

SpecFeatures == InitFeatures /\ [][NextFeatures]_vars

----------------------------------------------------------------------------
(* The same two calls with weights a caller should not store: a negative    *)
(* weight, a weight missing, a weight under a key line 314 does not read.   *)

InvalidWeights ==
  { [price |-> -4, ratings |-> 3, reviews |-> 2, description_relevance |-> 1],
    [price |-> 4, ratings |-> 3, reviews |-> -2, description_relevance |-> 5],
    [price |-> 4, ratings |-> 3, reviews |-> 3],
    [price |-> 4, rating |-> 3, reviews |-> 2, description_relevance |-> 1] }

InitInvalid ==
  /\ session_state \in {[has_weights |-> TRUE, weights |-> w] : w \in InvalidWeights}
  /\ tie_order \in TieOrders
  /\ all_products \in FeatureBatches
  /\ query \in Queries
  /\ result = NoResult
  /\ prev_result = NoResult
  /\ calls = 0
  /\ frame = <<>> /\ prev_frame = <<>> /\ weight_factor = 1
  /\ SearchIdle
  /\ OtherIdle
  /\ searches = <<>>

SpecInvalid == InitInvalid /\ [][Next]_vars

----------------------------------------------------------------------------
(* search_amazon and search_snapdeal.  A page is the sequence of result     *)
(* elements the site served.  An element carries what the selectors find:  *)
(* whether a title and a link element exist, their texts, and the values   *)
(* the cleaning functions give for its price, rating and review texts.     *)

Element(has_title, title, has_link, link, price, rating, reviews) ==
  [has_title |-> has_title, title |-> title, has_link |-> has_link,
   link |-> link, price |-> price, rating |-> rating, reviews |-> reviews]

AmazonElements ==
  { Element(TRUE, "shoe", TRUE, "a/1", 1, 4, 0),
    Element(FALSE, "", TRUE, "a/2", 2, 4, 1),
    Element(TRUE, "lamp", TRUE, "a/3", None, 0, 0) }

SnapdealElements ==
  { Element(TRUE, "shoe", TRUE, "s/1", 1, 4, 1),
    Element(TRUE, "lamp", FALSE, "", 2, 5, 0),
    Element(TRUE, "", TRUE, "", None, 5, 0) }

AmazonPages == SeqsUpTo(AmazonElements, MaxElems)
SnapdealPages == SeqsUpTo(SnapdealElements, MaxElems)

\* product_elements[:10]
ElementLimit == 10

first_elements(page) ==
  IF Len(page) <= ElementLimit THEN page ELSE SubSeq(page, 1, ElementLimit)

\* search_amazon's loop over the elements: an element with no title element
\* or no link element is skipped, and a product is appended only when title
\* and link are both non-empty.
RECURSIVE amazon_extract(_)
amazon_extract(elements) ==
  IF elements = <<>> THEN <<>>
  ELSE LET e == Head(elements)
       IN  IF ~e.has_title \/ ~e.has_link THEN amazon_extract(Tail(elements))
           ELSE IF e.title # "" /\ e.link # ""
           THEN <<RawProduct(e.title, e.price, e.rating, e.reviews, e.link, "Amazon")>>
                \o amazon_extract(Tail(elements))
           ELSE amazon_extract(Tail(elements))

\* search_snapdeal's loop over the elements: an element with no title element
\* or no link element is skipped; every other element is appended.
RECURSIVE snapdeal_extract(_)
snapdeal_extract(elements) ==
  IF elements = <<>> THEN <<>>
  ELSE LET e == Head(elements)
       IN  IF ~e.has_title \/ ~e.has_link THEN snapdeal_extract(Tail(elements))
           ELSE <<RawProduct(e.title, e.price, e.rating, e.reviews, e.link, "Snapdeal")>>
                \o snapdeal_extract(Tail(elements))

\* The task of search_amazon, line by line.

\* webdriver.Chrome(options=...): the driver starts, or the call raises and
\* the outer except logs it.
AmazonStartDriver ==
  /\ a_pc = "start"
  /\ \/ /\ driver' = "open"
        /\ a_pc' = "get"
        /\ UNCHANGED a_raised
     \/ /\ a_raised' = "driver"
        /\ a_pc' = "return"
        /\ UNCHANGED driver
  /\ UNCHANGED <<amazon_page, a_products, amazon_future>>
  /\ UNCHANGED <<rank_vars, snapdeal_vars, main_vars, finished>>
  /\ UNCHANGED <<searches, other_vars>>

\* driver.get, the wait for the product cards and find_elements: the page's
\* elements are found, or one of the calls raises, or the browser never
\* answers (the calls carry no timeout of the code's own).
AmazonLoadPage ==
  /\ a_pc = "get"
  /\ \/ /\ \E page \in AmazonPages : amazon_page' = page
        /\ a_pc' = "extract"
        /\ UNCHANGED a_raised
     \/ /\ a_raised' = "page"
        /\ a_pc' = "return"
        /\ UNCHANGED amazon_page
     \/ /\ a_pc' = "hung"
        /\ UNCHANGED <<a_raised, amazon_page>>
  /\ UNCHANGED <<driver, a_products, amazon_future>>
  /\ UNCHANGED <<rank_vars, snapdeal_vars, main_vars, finished>>
  /\ UNCHANGED <<searches, other_vars>>

\* The loop over product_elements[:10].
AmazonExtract ==
  /\ a_pc = "extract"
  /\ a_products' = amazon_extract(first_elements(amazon_page))
  /\ a_pc' = "quit"
  /\ UNCHANGED <<driver, a_raised, amazon_page, amazon_future>>
  /\ UNCHANGED <<rank_vars, snapdeal_vars, main_vars, finished>>
  /\ UNCHANGED <<searches, other_vars>>

\* driver.quit(): it quits the driver or raises; either way the products
\* collected are kept.
AmazonQuit ==
  /\ a_pc = "quit"
  /\ \/ /\ driver' = "quit"
        /\ UNCHANGED a_raised
     \/ /\ a_raised' = "quit"
        /\ UNCHANGED driver
  /\ a_pc' = "return"
  /\ UNCHANGED <<amazon_page, a_products, amazon_future>>
  /\ UNCHANGED <<rank_vars, snapdeal_vars, main_vars, finished>>
  /\ UNCHANGED <<searches, other_vars>>

\* return products: the task's future is done.
AmazonReturn ==
  /\ a_pc = "return"
  /\ amazon_future' = [done |-> TRUE, value |-> a_products]
  /\ a_pc' = "done"
  /\ finished' = Append(finished, "Amazon")
  /\ UNCHANGED <<driver, a_raised, amazon_page, a_products>>
  /\ UNCHANGED <<rank_vars, snapdeal_vars, main_vars>>
  /\ UNCHANGED <<searches, other_vars>>

\* The task of search_snapdeal.

max_retries == 3

\* The retry loop without the break of line 258: a request answered with
\* status 200 is followed by the next pass.
SnapdealAttempt_no_break ==
  /\ s_pc = "attempt"
  /\ s_delays' = s_delays + 1
  /\ s_requests' = s_requests + 1
  /\ \/ /\ \E page \in SnapdealPages :
             /\ snapdeal_page' = page
             /\ s_products' = snapdeal_extract(first_elements(page))
        /\ s_status' = "200"
        /\ s_pc' = IF s_requests + 1 = max_retries THEN "return" ELSE "attempt"
        /\ UNCHANGED <<attempt, s_gave_up, s_sleeps>>
     \/ /\ attempt' = attempt + 1
        /\ s_status' = "other"
        /\ s_pc' = IF s_requests + 1 = max_retries THEN "return" ELSE "attempt"
        /\ s_gave_up' = (attempt + 1 = max_retries)
        /\ UNCHANGED <<s_sleeps, snapdeal_page, s_products>>
     \/ /\ attempt' = attempt + 1
        /\ s_status' = "raised"
        /\ s_sleeps' = s_sleeps + 1
        /\ s_pc' = IF s_requests + 1 = max_retries THEN "return" ELSE "attempt"
        /\ s_gave_up' = (attempt + 1 = max_retries)
        /\ UNCHANGED <<snapdeal_page, s_products>>
  /\ UNCHANGED snapdeal_future
  /\ UNCHANGED <<rank_vars, amazon_vars, main_vars, finished>>
  /\ UNCHANGED <<searches, other_vars>>

\* One pass of the retry loop.  After the random delay of line 200 the
\* request is made.  It is answered with status 200 and the page is parsed
\* (break); or it is answered with another status, which is logged; or
\* requests.get raises (its timeout is 20 s), which is logged and followed
\* by time.sleep(5).  After the last attempt the loop ends.
SnapdealAttempt ==
  /\ s_pc = "attempt"
  /\ s_delays' = s_delays + 1
  /\ s_requests' = s_requests + 1
  /\ \/ /\ \E page \in SnapdealPages :
             /\ snapdeal_page' = page
             /\ s_products' = snapdeal_extract(first_elements(page))
        /\ s_status' = "200"
        /\ s_pc' = "return"
        /\ UNCHANGED <<attempt, s_gave_up, s_sleeps>>
     \/ /\ attempt' = attempt + 1
        /\ s_status' = "other"
        /\ s_pc' = IF attempt + 1 = max_retries THEN "return" ELSE "attempt"
        /\ s_gave_up' = (attempt + 1 = max_retries)
        /\ UNCHANGED <<s_sleeps, snapdeal_page, s_products>>
     \/ /\ attempt' = attempt + 1
        /\ s_status' = "raised"
        /\ s_sleeps' = s_sleeps + 1
        /\ s_pc' = IF attempt + 1 = max_retries THEN "return" ELSE "attempt"
        /\ s_gave_up' = (attempt + 1 = max_retries)
        /\ UNCHANGED <<snapdeal_page, s_products>>
  /\ UNCHANGED snapdeal_future
  /\ UNCHANGED <<rank_vars, amazon_vars, main_vars, finished>>
  /\ UNCHANGED <<searches, other_vars>>

\* return products
SnapdealReturn ==
  /\ s_pc = "return"
  /\ snapdeal_future' = [done |-> TRUE, value |-> s_products]
  /\ s_pc' = "done"
  /\ finished' = Append(finished, "Snapdeal")
  /\ UNCHANGED <<attempt, s_gave_up, s_sleeps, snapdeal_page, s_products>>
  /\ UNCHANGED <<s_requests, s_delays, s_status>>
  /\ UNCHANGED <<rank_vars, amazon_vars, main_vars>>
  /\ UNCHANGED <<searches, other_vars>>

----------------------------------------------------------------------------
(* search_and_compare.                                                      *)

\* The two executor.submit calls: with max_workers=2 both tasks run.
Submit ==
  /\ pc = "idle"
  /\ a_pc' = "start"
  /\ s_pc' = "attempt"
  /\ pc' = "wait_amazon"
  /\ UNCHANGED <<driver, a_raised, amazon_page, a_products, amazon_future>>
  /\ UNCHANGED <<attempt, s_gave_up, s_sleeps, snapdeal_page, s_products, snapdeal_future>>
  /\ UNCHANGED <<s_requests, s_delays, s_status>>
  /\ UNCHANGED <<rank_vars, amazon_products, snapdeal_products, finished>>
  /\ UNCHANGED <<searches, other_vars>>

\* amazon_future.result(): blocks until the task is done; no timeout is given.
AwaitAmazon ==
  /\ pc = "wait_amazon"
  /\ amazon_future.done
  /\ amazon_products' = amazon_future.value
  /\ pc' = "wait_snapdeal"
  /\ UNCHANGED <<rank_vars, amazon_vars, snapdeal_vars, snapdeal_products, finished>>
  /\ UNCHANGED <<searches, other_vars>>

\* The products of the Snapdeal task taken as they stand, done or not.
AwaitSnapdeal_no_wait ==
  /\ pc = "wait_snapdeal"
  /\ snapdeal_products' = s_products
  /\ pc' = "join"
  /\ UNCHANGED <<rank_vars, amazon_vars, snapdeal_vars, amazon_products, finished>>
  /\ UNCHANGED <<searches, other_vars>>

\* snapdeal_future.result()
AwaitSnapdeal ==
  /\ pc = "wait_snapdeal"
  /\ snapdeal_future.done
  /\ snapdeal_products' = snapdeal_future.value
  /\ pc' = "join"
  /\ UNCHANGED <<rank_vars, amazon_vars, snapdeal_vars, amazon_products, finished>>
  /\ UNCHANGED <<searches, other_vars>>

\* The joined variant a collector of finished futures would build.
join_as_completed(amazon, snapdeal) ==
  IF finished # <<>> /\ finished[1] = "Snapdeal"
  THEN snapdeal \o amazon
  ELSE amazon \o snapdeal

\* all_products = amazon_products + snapdeal_products
join_products(amazon, snapdeal) == amazon \o snapdeal

\* The join and the ranking of the joined batch; the call returns.
JoinAndCompare ==
  /\ pc = "join"
  /\ all_products' = join_products(amazon_products, snapdeal_products)
  /\ result' = process_and_compare_products(all_products', query)
  /\ prev_result' = result
  /\ frame' = local_frame(all_products', query)
  /\ prev_frame' = frame
  /\ calls' = calls + 1
  /\ pc' = "returned"
  /\ UNCHANGED <<session_state, tie_order, query, weight_factor>>
  /\ UNCHANGED <<amazon_vars, snapdeal_vars, amazon_products, snapdeal_products, finished>>
  /\ UNCHANGED <<searches, other_vars>>

\* The application itself never stores weights in the session state.
InitSearch ==
  /\ session_state = [has_weights |-> FALSE, weights |-> DefaultWeights]
  /\ tie_order \in TieOrders
  /\ all_products = <<>>
  /\ query \in Queries
  /\ result = NoResult
  /\ prev_result = NoResult
  /\ calls = 0
  /\ frame = <<>> /\ prev_frame = <<>> /\ weight_factor = 1
  /\ SearchIdle
  /\ OtherIdle
  /\ searches = <<>>

AmazonTask ==
  AmazonStartDriver \/ AmazonLoadPage \/ AmazonExtract \/ AmazonQuit \/ AmazonReturn

SnapdealTask == SnapdealAttempt \/ SnapdealReturn

MainThread == Submit \/ AwaitAmazon \/ AwaitSnapdeal \/ JoinAndCompare

NextSearch == AmazonTask \/ SnapdealTask \/ MainThread

SpecSearch == InitSearch /\ [][NextSearch]_vars

\* The threads are scheduled: a thread that can take a step takes one.
FairSearch ==
  /\ InitSearch /\ [][NextSearch]_vars
  /\ WF_vars(AmazonTask)
  /\ WF_vars(SnapdealTask)
  /\ WF_vars(MainThread)

----------------------------------------------------------------------------
(* Two calls of process_and_compare_products side by side, each on its own   *)
(* model object and its own batch.  A call's df is a local of the call; the  *)
(* steps of the two calls interleave.                                        *)

Searchers == {1, 2}

OwnRecords ==
  { RawProduct("shoe", 1, 4, 2, "p/1", "Amazon"),
    RawProduct("lamp", 4, 0, 0, "p/2", "Amazon"),
    RawProduct("", None, 5, 1, "", "Snapdeal") }

OwnBatches == SeqsUpTo(OwnRecords, MaxOwnBatch)

\* A record with the columns of another added.
WithColumns(row, more) ==
  [key \in DOMAIN row \cup DOMAIN more |->
     IF key \in DOMAIN more THEN more[key] ELSE row[key]]

\* Lines 278-294: the frame, the prices filled, the relevance column.
frame_vectorized(batch, q) ==
  LET price == price_fillna(batch)
      relevance == description_relevance(batch, q)
  IN  [i \in DOMAIN batch |->
         [index |-> i,
          title |-> batch[i].title,
          price |-> price[i],
          rating |-> batch[i].rating,
          reviews |-> batch[i].reviews,
          source |-> batch[i].source,
          link |-> batch[i].link,
          image |-> batch[i].image,
          description_relevance |-> relevance[i]]]

\* Lines 297-309: the four normalised columns.
frame_normalized(d) ==
  LET price_norm == norm_lower_better([i \in DOMAIN d |-> d[i].price])
      rating_norm == norm_higher_better([i \in DOMAIN d |-> d[i].rating])
      reviews_norm == norm_higher_better([i \in DOMAIN d |-> d[i].reviews])
      relevance_norm ==
        norm_higher_better([i \in DOMAIN d |-> d[i].description_relevance])
  IN  [i \in DOMAIN d |->
         WithColumns(d[i], [price_norm |-> price_norm[i],
                            rating_norm |-> rating_norm[i],
                            reviews_norm |-> reviews_norm[i],
                            description_relevance_norm |-> relevance_norm[i]])]

\* Lines 312-317: the score column.
frame_scored(d) ==
  [i \in DOMAIN d |->
     WithColumns(d[i], [score |->
       weighted_score(d[i].price_norm, d[i].rating_norm, d[i].reviews_norm,
                      d[i].description_relevance_norm, self_weights)])]

\* Lines 320-352: the sort, the results, the returned dictionary.
frame_results(d, q) ==
  LET results == ranked_results(sort_values(d))
  IN  [message |-> <<"Found", Len(results), "products matching", q>>,
       top_results |-> top_results(results),
       best_by_source |-> best_by_source(results),
       all_products |-> results]

\* The two calls are on different batches, one per query.
InitConcurrent ==
  /\ session_state = [has_weights |-> FALSE, weights |-> DefaultWeights]
  /\ tie_order \in TieOrders
  /\ all_products = <<>>
  /\ query \in Queries
  /\ result = NoResult
  /\ prev_result = NoResult
  /\ calls = 0
  /\ frame = <<>> /\ prev_frame = <<>> /\ weight_factor = 1
  /\ SearchIdle
  /\ OtherIdle
  /\ \E b1, b2 \in OwnBatches, q2 \in Queries :
       /\ b1 # b2
       /\ searches =
            [n \in Searchers |->
               [batch |-> IF n = 1 THEN b1 ELSE b2,
                query |-> IF n = 1 THEN query ELSE q2,
                stage |-> "called",
                df |-> <<>>,
                result |-> NoResult]]

\* Lines 274-294 of one call: the early return for an empty batch, or the
\* frame.
Vectorize ==
  /\ \E n \in Searchers :
       /\ searches[n].stage = "called"
       /\ LET own == searches[n]
          IN  searches' =
                [searches EXCEPT ![n] =
                   IF own.batch = <<>>
                   THEN [own EXCEPT
                           !.stage = "returned",
                           !.result = process_and_compare_products(<<>>, own.query)]
                   ELSE [own EXCEPT
                           !.stage = "vectorized",
                           !.df = frame_vectorized(own.batch, own.query)]]
  /\ UNCHANGED <<rank_vars, amazon_vars, snapdeal_vars, main_vars, finished>>
  /\ UNCHANGED other_vars

Normalize ==
  /\ \E n \in Searchers :
       /\ searches[n].stage = "vectorized"
       /\ searches' = [searches EXCEPT ![n].stage = "normalized",
                                        ![n].df = frame_normalized(@)]
  /\ UNCHANGED <<rank_vars, amazon_vars, snapdeal_vars, main_vars, finished>>
  /\ UNCHANGED other_vars

Score ==
  /\ \E n \in Searchers :
       /\ searches[n].stage = "normalized"
       /\ searches' = [searches EXCEPT ![n].stage = "scored",
                                        ![n].df = frame_scored(@)]
  /\ UNCHANGED <<rank_vars, amazon_vars, snapdeal_vars, main_vars, finished>>
  /\ UNCHANGED other_vars

SortAndReturn ==
  /\ \E n \in Searchers :
       /\ searches[n].stage = "scored"
       /\ LET own == searches[n]
          IN  searches' =
                [searches EXCEPT ![n].stage = "returned",
                                 ![n].result = frame_results(own.df, own.query)]
  /\ UNCHANGED <<rank_vars, amazon_vars, snapdeal_vars, main_vars, finished>>
  /\ UNCHANGED other_vars

NextConcurrent == Vectorize \/ Normalize \/ Score \/ SortAndReturn

SpecConcurrent == InitConcurrent /\ [][NextConcurrent]_vars

----------------------------------------------------------------------------
(* The cleaning functions.  A text is a sequence of characters.             *)

\* Neither a ranking nor a search is under way.
ScraperIdle ==
  /\ session_state = [has_weights |-> FALSE, weights |-> DefaultWeights]
  /\ tie_order = "input"
  /\ all_products = <<>>
  /\ query = "shoe"
  /\ result = NoResult
  /\ prev_result = NoResult
  /\ calls = 0
  /\ frame = <<>> /\ prev_frame = <<>> /\ weight_factor = 1
  /\ SearchIdle
  /\ searches = <<>>

\* What \d matches.
Digits == {"0", "1", "2", "3", "4", "5", "6", "7", "8", "9"}

DigitValue(c) ==
  CASE c = "0" -> 0 [] c = "1" -> 1 [] c = "2" -> 2 [] c = "3" -> 3
    [] c = "4" -> 4 [] c = "5" -> 5 [] c = "6" -> 6 [] c = "7" -> 7
    [] c = "8" -> 8 [] c = "9" -> 9

IsDigit(c) == c \in Digits

\* The value of a sequence of digits read as a decimal numeral.
RECURSIVE DigitsValue(_)
DigitsValue(ds) ==
  IF ds = <<>> THEN 0
  ELSE DigitsValue(SubSeq(ds, 1, Len(ds) - 1)) * 10 + DigitValue(ds[Len(ds)])

RECURSIVE Pow10(_)
Pow10(n) == IF n = 0 THEN 1 ELSE 10 * Pow10(n - 1)

\* The characters re.sub(r'[^\d.]', '', s) keeps.
KeptInPrice(c) == IsDigit(c) \/ c = "."

\* float(s) of a text of digits and dots: it parses when the text holds at
\* least one digit and at most one dot, and raises ValueError otherwise.
float_parses(t) ==
  /\ \E i \in DOMAIN t : IsDigit(t[i])
  /\ Cardinality({i \in DOMAIN t : t[i] = "."}) <= 1

\* The value of such a text, as a fraction: the digits over the power of
\* ten of the digits that follow the dot.
float_of(t) ==
  LET dots == {i \in DOMAIN t : t[i] = "."}
      after == IF dots = {} THEN 0 ELSE Len(t) - (CHOOSE i \in dots : TRUE)
  IN  [none |-> FALSE,
       num |-> DigitsValue(SelectSeq(t, IsDigit)),
       den |-> Pow10(after)]

\* Python's None as a returned price.
NoPrice == [none |-> TRUE, num |-> 0, den |-> 1]

\* _clean_price (lines 60-68).
clean_price(s) ==
  IF s = <<>> THEN NoPrice
  ELSE LET price == SelectSeq(s, KeptInPrice)
       IN  IF float_parses(price) THEN float_of(price) ELSE NoPrice

\* The characters of the texts the model enumerates: three digits, the
\* dot, the comma, the blank and a letter.
PriceChars == {"0", "1", "9", ".", ",", " ", "R"}

\* Every text of up to MaxText characters, and two price texts as the
\* sites show them: 'Rs. 1,299' and '$499.00'.
PriceTexts ==
  SeqsUpTo(PriceChars, MaxText)
  \cup { <<"R", "s", ".", " ", "1", ",", "2", "9", "9">>,
         <<"$", "4", "9", "9", ".", "0", "0">> }

InitClean ==
  /\ ScraperIdle
  /\ price_str \in PriceTexts
  /\ price_out = NoResult
  /\ rating_str = <<>> /\ rating_out = NoResult
  /\ TrackerIdle /\ AccountIdle /\ AppIdle

CleanPrice ==
  /\ price_out = NoResult
  /\ price_out' = clean_price(price_str)
  /\ UNCHANGED <<price_str, rating_str, rating_out>>
  /\ UNCHANGED not_clean_vars

NextClean == CleanPrice

SpecClean == InitClean /\ [][NextClean]_vars

\* The last place of the run of digits that starts at place i of a text.
RunEnd(t, i) ==
  MaxOf({j \in i..Len(t) : \A k \in i..j : IsDigit(t[k])})

\* _extract_rating (lines 70-77): the leftmost match of \d+(\.\d+)? is the
\* run of digits at the first digit, with a dot and the run of digits after
\* it when they follow.
extract_rating(s) ==
  IF \A i \in DOMAIN s : ~IsDigit(s[i]) THEN [num |-> 0, den |-> 1]
  ELSE LET first == MinOf({i \in DOMAIN s : IsDigit(s[i])})
           last == RunEnd(s, first)
           decimals == last + 2 <= Len(s) /\ s[last + 1] = "." /\ IsDigit(s[last + 2])
           match == IF decimals THEN SubSeq(s, first, RunEnd(s, last + 2))
                    ELSE SubSeq(s, first, last)
           value == float_of(match)
       IN  [num |-> value.num, den |-> value.den]

\* The places of a style text where width:\s*(\d+)% matches.  The word
\* "width:" is one element of the text.
WidthMatches(s) ==
  {i \in DOMAIN s :
     /\ s[i] = "width:"
     /\ \E d \in (i + 1)..Len(s) :
          /\ \A k \in (i + 1)..(d - 1) : s[k] = " "
          /\ IsDigit(s[d])
          /\ RunEnd(s, d) < Len(s)
          /\ s[RunEnd(s, d) + 1] = "%"}

\* Lines 233-238 of search_snapdeal: the width percentage of the filled
\* stars divided by 20, and 0 without a style or without a match.
snapdeal_rating(s) ==
  IF s = <<>> \/ WidthMatches(s) = {} THEN [num |-> 0, den |-> 1]
  ELSE LET i == MinOf(WidthMatches(s))
           d == MinOf({k \in (i + 1)..Len(s) : IsDigit(s[k])})
       IN  [num |-> DigitsValue(SubSeq(s, d, RunEnd(s, d))), den |-> 20]

RatingChars == {"0", "1", "5", ".", " ", "%", "o", "width:"}

\* Every text of up to MaxText elements, and two texts as the sites show
\* them: '4.5 out of 5 stars' and 'width:80%'.
RatingTexts ==
  SeqsUpTo(RatingChars, MaxText)
  \cup { <<"4", ".", "5", " ", "o", "u", "t", " ", "o", "f", " ", "5", " ",
           "s", "t", "a", "r", "s">>,
         <<"width:", "8", "0", "%">> }

InitRating ==
  /\ ScraperIdle
  /\ price_str = <<>> /\ price_out = NoResult
  /\ rating_str \in RatingTexts
  /\ rating_out = NoResult
  /\ TrackerIdle /\ AccountIdle /\ AppIdle

\* search_amazon hands the aria-label of the star icon to _extract_rating
\* (lines 151, 175).  A label is a text without style declarations.
ExtractRating ==
  /\ rating_out = NoResult
  /\ \A i \in DOMAIN rating_str : rating_str[i] # "width:"
  /\ rating_out' = [source |-> "Amazon", rating |-> extract_rating(rating_str)]
  /\ UNCHANGED <<price_str, price_out, rating_str>>
  /\ UNCHANGED not_clean_vars

\* search_snapdeal reads the style of the filled stars (lines 232-238, 251).
SnapdealRating ==
  /\ rating_out = NoResult
  /\ rating_out' = [source |-> "Snapdeal", rating |-> snapdeal_rating(rating_str)]
  /\ UNCHANGED <<price_str, price_out, rating_str>>
  /\ UNCHANGED not_clean_vars

NextRating == ExtractRating \/ SnapdealRating

SpecRating == InitRating /\ [][NextRating]_vars

----------------------------------------------------------------------------
(* Claims on process_and_compare_products, under Spec.                      *)

Ranked == calls >= 1 /\ all_products # <<>>

\* C1: for every non-empty batch, all_products is ordered by score
\* descending, and two products of equal score keep the relative order they
\* had in the input batch.
C1_SortedStable ==
  Ranked =>
    \A i, j \in DOMAIN result.all_products :
      i < j =>
        /\ result.all_products[i].score >= result.all_products[j].score
        /\ result.all_products[i].score = result.all_products[j].score
             => result.all_products[i].index < result.all_products[j].index

\* C2: for a batch of N >= 1 products the ranks of all_products are exactly
\* 1..N, each once, and the product at position i has rank i (every product
\* of the batch being listed once).
C2_RankBijection ==
  Ranked =>
    /\ Len(result.all_products) = Len(all_products)
    /\ {result.all_products[i].index : i \in DOMAIN result.all_products}
         = DOMAIN all_products
    /\ {result.all_products[i].rank : i \in DOMAIN result.all_products}
         = 1..Len(all_products)
    /\ \A i \in DOMAIN result.all_products : result.all_products[i].rank = i

\* C2's case: a batch of three or more whose first row the sort has moved.
C2_Witness ==
  /\ Ranked
  /\ Len(all_products) >= 3
  /\ result.all_products[1].index # 1

\* C3: best_by_source holds exactly one entry for every source present in the
\* batch, the product of that source with the lowest rank number in
\* all_products, and no entry for any other source.
C3_BestBySource ==
  Ranked =>
    LET best == result.best_by_source
        sources == {all_products[i].source : i \in DOMAIN all_products}
    IN  /\ \A s \in sources :
             /\ Cardinality({i \in DOMAIN best : best[i].source = s}) = 1
             /\ \A i \in DOMAIN best :
                  best[i].source = s =>
                    /\ best[i] \in Range(result.all_products)
                    /\ \A k \in DOMAIN result.all_products :
                         result.all_products[k].source = s
                           => best[i].rank <= result.all_products[k].rank
        /\ \A i \in DOMAIN best : best[i].source \in sources

\* C3's case: both sources present, one of them with several products, and
\* the best of one source is not the overall first.
C3_Witness ==
  /\ Ranked
  /\ Len(result.best_by_source) = 2
  /\ result.best_by_source[2].rank >= 3
  /\ \E i \in DOMAIN result.all_products :
       /\ result.all_products[i].source = result.best_by_source[2].source
       /\ result.all_products[i].rank > result.best_by_source[2].rank

\* C4: for an empty batch the result carries a non-empty message and the
\* three lists all_products, top_results and best_by_source, each present and
\* empty.
C4_EmptyBatchLists ==
  (calls >= 1 /\ all_products = <<>>) =>
    /\ result.message # <<>>
    /\ {"all_products", "top_results", "best_by_source"} \subseteq DOMAIN result
    /\ result.all_products = <<>>
    /\ result.top_results = <<>>
    /\ result.best_by_source = <<>>

\* C5: for a batch of N >= 1 products, top_results is the first min(5, N)
\* elements of all_products in the same order.
C5_TopResults ==
  Ranked =>
    /\ Len(result.top_results)
         = (IF Len(all_products) < 5 THEN Len(all_products) ELSE 5)
    /\ \A i \in DOMAIN result.top_results :
         result.top_results[i] = result.all_products[i]

\* C5's case: more than five products, five of them in top_results.
C5_Witness ==
  /\ Ranked
  /\ Len(result.all_products) > 5
  /\ Len(result.top_results) = 5

\* C6: for every non-empty batch (each price a non-negative number or
\* absent) and non-negative weights summing to 1, every score of
\* all_products is a number, not NaN, between 0 and 100.
C6_ScoreDefinedInRange ==
  Ranked =>
    \A i \in DOMAIN result.all_products :
      /\ result.all_products[i].score # None
      /\ result.all_products[i].score >= 0
      /\ result.all_products[i].score <= 10000

----------------------------------------------------------------------------
(* Claims on search_and_compare, under SpecSearch and FairSearch.           *)

\* What each adapter hands back: nothing when its scrape raised before the
\* elements were read or it ran out of attempts, and else the records of the
\* page it was served.
AmazonReturned ==
  IF a_raised \in {"driver", "page"} THEN <<>>
  ELSE amazon_extract(first_elements(amazon_page))

SnapdealReturned ==
  IF s_gave_up THEN <<>>
  ELSE snapdeal_extract(first_elements(snapdeal_page))

\* C8: the batch handed to the ranking is the records of the adapters that
\* succeeded, Amazon's first and Snapdeal's after them; a failed adapter
\* contributes none and the other's records are still ranked; and the batch
\* is the same whichever task finished first.
C8_JoinInDeclaredOrder ==
  pc = "returned" =>
    /\ all_products = AmazonReturned \o SnapdealReturned
    /\ all_products # <<>> => Len(result.all_products) = Len(all_products)

\* C8's case: the Snapdeal task finished first, both adapters returned
\* records, and the call has returned.
C8_Witness ==
  /\ pc = "returned"
  /\ finished = <<"Snapdeal", "Amazon">>
  /\ AmazonReturned # <<>>
  /\ SnapdealReturned # <<>>

\* C9: search_and_compare eventually returns, also when one adapter task
\* never completes: that adapter counts as having returned no records and
\* the other adapter's records are ranked.
C9_EventuallyReturns == <>(pc = "returned")

\* C10: when every adapter fails or returns no records, search_and_compare
\* returns a well-formed empty comparison result, its three lists present
\* and empty, with an explanatory message.
C10_AllFailedWellFormed ==
  (pc = "returned" /\ amazon_products = <<>> /\ snapdeal_products = <<>>) =>
    /\ result.message # <<>>
    /\ {"all_products", "top_results", "best_by_source"} \subseteq DOMAIN result
    /\ result.all_products = <<>>
    /\ result.top_results = <<>>
    /\ result.best_by_source = <<>>

\* The weights put everything on the price.
PriceOnly(w) ==
  w.price > 0 /\ w.ratings = 0 /\ w.reviews = 0 /\ w.description_relevance = 0

\* The batch is two products with numeric prices that differ in the price
\* and in nothing else.
PricePair ==
  /\ Len(all_products) = 2
  /\ all_products[1].price # None /\ all_products[2].price # None
  /\ all_products[1].price # all_products[2].price
  /\ [all_products[1] EXCEPT !.price = 0] = [all_products[2] EXCEPT !.price = 0]

\* The position in the batch of the cheaper product of a price pair.
Cheaper == IF all_products[1].price < all_products[2].price THEN 1 ELSE 2

IsOne(n) == n.den # 0 /\ n.num = n.den

\* The last call built a frame: the batch was not empty and nothing raised.
Framed == calls >= 1 /\ frame # <<>>

\* The values of a column of the frame are one value, as in every frame of
\* one row.
Constant(col) == \A i, j \in DOMAIN col : col[i] = col[j]

\* C12: a feature whose maximum equals its minimum over the batch, as in
\* every batch of one product, is normalised to 1.0 for every product.
C12_DegenerateIsOne ==
  Framed =>
    /\ (Len(frame) = 1 \/ Constant([i \in DOMAIN frame |-> frame[i].price]))
         => \A i \in DOMAIN frame : IsOne(frame[i].price_norm)
    /\ Constant([i \in DOMAIN frame |-> frame[i].rating])
         => \A i \in DOMAIN frame : IsOne(frame[i].rating_norm)
    /\ Constant([i \in DOMAIN frame |-> frame[i].reviews])
         => \A i \in DOMAIN frame : IsOne(frame[i].reviews_norm)
    /\ Constant([i \in DOMAIN frame |-> frame[i].description_relevance])
         => \A i \in DOMAIN frame : IsOne(frame[i].description_relevance_norm)

\* The positions of the batch that hold a numeric price.
NumericPrices == {i \in DOMAIN all_products : all_products[i].price # None}

\* The sum of the numeric prices of the batch.
NumericTotal ==
  SumSeq([i \in DOMAIN all_products |->
            IF i \in NumericPrices THEN all_products[i].price ELSE 0])

\* C13: in a batch with absent prices and at least one numeric price, the
\* frame that is normalised holds, for every absent price, the arithmetic
\* mean of the numeric prices, and every numeric price as it was.
C13_AbsentPriceIsMean ==
  (Framed /\ NumericPrices # {} /\ NumericPrices # DOMAIN all_products) =>
    \A i \in DOMAIN frame :
      /\ frame[i].price.den > 0
      /\ IF i \in NumericPrices
         THEN frame[i].price.num = all_products[i].price * frame[i].price.den
         ELSE frame[i].price.num * Cardinality(NumericPrices)
                = NumericTotal * frame[i].price.den

\* A batch with an absent price and two different numeric prices was
\* ranked.
C13_Witness ==
  /\ Framed
  /\ NumericPrices # DOMAIN all_products
  /\ \E i, j \in NumericPrices : all_products[i].price # all_products[j].price

\* The frame labels of a list of results, in the order of the list.
Indices(results) == [i \in DOMAIN results |-> results[i].index]

\* The second call ran with the weights of the first multiplied by a
\* factor.
Rescaled == calls = 2 /\ weight_factor > 1 /\ all_products # <<>>

Malformed(w) == ~(WeightKeys \subseteq DOMAIN w) \/ \E key \in DOMAIN w : w[key] < 0

\* C15: a call on a batch of products with weights that lack one of the
\* four weights or hold a negative one is rejected: the caller gets a
\* failure and no ranking.
C15_MalformedWeightsRejected ==
  (calls >= 1 /\ all_products # <<>> /\ Malformed(self_weights)) =>
    /\ "raised" \in DOMAIN result
    /\ "all_products" \notin DOMAIN result
    /\ "products" \notin DOMAIN result

\* The normalised columns of a row.
NormColumns(row) ==
  <<row.price_norm, row.rating_norm, row.reviews_norm,
    row.description_relevance_norm>>

\* C16: whatever the interleaving of two calls on different batches, each
\* call's normalised values, scores and returned ranking are the ones the
\* call gives on its own batch alone.
C16_CallsDoNotInterfere ==
  \A n \in DOMAIN searches :
    LET own == searches[n]
        alone == local_frame(own.batch, own.query)
    IN  /\ own.stage \in {"normalized", "scored"} =>
             \A i \in DOMAIN own.df : NormColumns(own.df[i]) = NormColumns(alone[i])
        /\ own.stage = "scored" => own.df = alone
        /\ own.stage = "returned" =>
             own.result = process_and_compare_products(own.batch, own.query)

\* Both calls hold their normalised frames at once, over batches whose
\* ratings span different ranges.
C16_Witness ==
  /\ DOMAIN searches = Searchers
  /\ searches[1].stage = "normalized" /\ searches[2].stage = "normalized"
  /\ Len(searches[1].df) = 2 /\ Len(searches[2].df) = 2
  /\ {searches[1].df[i].rating : i \in 1..2} = {4, 5}
  /\ {searches[2].df[i].rating : i \in 1..2} = {0, 4}

\* C17: every record search_amazon or search_snapdeal has returned holds a
\* title that is not empty and a link that is not empty.
C17_RecordsHaveTitleAndLink ==
  /\ amazon_future.done =>
       \A i \in DOMAIN amazon_future.value :
         amazon_future.value[i].title # "" /\ amazon_future.value[i].link # ""
  /\ snapdeal_future.done =>
       \A i \in DOMAIN snapdeal_future.value :
         snapdeal_future.value[i].title # "" /\ snapdeal_future.value[i].link # ""

\* The weights the last call ran with are the weights in force: the caller
\* has not changed them since.
WeightsInForce == ~(calls = 1 /\ weight_factor > 1)

\* The product of the denominators of a row's normalised values.
NormDen(row) ==
  row.price_norm.den * row.rating_norm.den * row.reviews_norm.den
    * row.description_relevance_norm.den

\* The weighted sum of a row's normalised values (weights in tenths), as
\* the numerator over NormDen.
NormSum(row, w) ==
  row.price_norm.num * w.price
      * (row.rating_norm.den * row.reviews_norm.den * row.description_relevance_norm.den)
  + row.rating_norm.num * w.ratings
      * (row.price_norm.den * row.reviews_norm.den * row.description_relevance_norm.den)
  + row.reviews_norm.num * w.reviews
      * (row.price_norm.den * row.rating_norm.den * row.description_relevance_norm.den)
  + row.description_relevance_norm.num * w.description_relevance
      * (row.price_norm.den * row.rating_norm.den * row.reviews_norm.den)

\* The distance of a reported score, in hundredths, from the exact
\* weighted sum times 100, in units of 1 / NormDen.
ScoreGap(r) ==
  LET exact == ((100 * 100) \div WeightScale) * NormSum(frame[r.index], self_weights)
      given == r.score * NormDen(frame[r.index])
  IN  IF given >= exact THEN given - exact ELSE exact - given

\* C18: the reported score of every product is price_norm * w.price +
\* rating_norm * w.ratings + reviews_norm * w.reviews + relevance_norm *
\* w.description_relevance, times 100, rounded to two decimals (to the
\* even neighbour at a half), over the product's own normalised values.
C18_ReportedScore ==
  (Framed /\ WeightsInForce) =>
    \A k \in DOMAIN result.all_products :
      LET r == result.all_products[k]
      IN  IF NormDen(frame[r.index]) = 0
          THEN r.score = None
          ELSE /\ 2 * ScoreGap(r) <= NormDen(frame[r.index])
               /\ 2 * ScoreGap(r) = NormDen(frame[r.index]) => r.score % 2 = 0

\* A product was reported with a score rounded up from a weighted sum in
\* which all four weights count.
C18_Witness ==
  /\ Framed /\ WeightsInForce
  /\ \A key \in WeightKeys : self_weights[key] > 0
  /\ \E k \in DOMAIN result.all_products :
       LET r == result.all_products[k]
       IN  /\ NormDen(frame[r.index]) > 0
           /\ r.score * NormDen(frame[r.index])
                > ((100 * 100) \div WeightScale) * NormSum(frame[r.index], self_weights)
           /\ frame[r.index].rating_norm.num > 0
           /\ frame[r.index].reviews_norm.num > 0

\* A normalised value lies in [0, 1].
InUnit(n) == n.den > 0 /\ 0 <= n.num /\ n.num <= n.den

\* A column of the frame with its normalised column is the linear map that
\* takes the minimum to 0.0 and the maximum to 1.0.
MinMax(col, norm) ==
  LET mx == MaxOf(Range(col))
      mn == MinOf(Range(col))
  IN  mx # mn =>
        \A i \in DOMAIN col :
          /\ InUnit(norm[i])
          /\ col[i] = mn => norm[i].num = 0
          /\ col[i] = mx => IsOne(norm[i])
          /\ norm[i].num * (mx - mn) = (col[i] - mn) * norm[i].den

\* The same with the minimum taken to 1.0 and the maximum to 0.0.
InverseMinMax(col, norm) ==
  LET mx == MaxOf(Range(col))
      mn == MinOf(Range(col))
  IN  mx # mn =>
        \A i \in DOMAIN col :
          /\ InUnit(norm[i])
          /\ col[i] = mn => IsOne(norm[i])
          /\ col[i] = mx => norm[i].num = 0
          /\ norm[i].num * (mx - mn) = (mx - col[i]) * norm[i].den

\* C19: a feature whose maximum differs from its minimum is normalised
\* into [0, 1] linearly: the price with its minimum at 1.0 and its maximum
\* at 0.0, the rating, the reviews and the relevance with the minimum at
\* 0.0 and the maximum at 1.0.  The filled prices of a frame share their
\* denominator, so their numerators stand for them.
C19_LinearMinMax ==
  Framed =>
    /\ (\A i \in DOMAIN frame : frame[i].price.den > 0) =>
         InverseMinMax([i \in DOMAIN frame |-> frame[i].price.num],
                       [i \in DOMAIN frame |-> frame[i].price_norm])
    /\ MinMax([i \in DOMAIN frame |-> frame[i].rating],
              [i \in DOMAIN frame |-> frame[i].rating_norm])
    /\ MinMax([i \in DOMAIN frame |-> frame[i].reviews],
              [i \in DOMAIN frame |-> frame[i].reviews_norm])
    /\ MinMax([i \in DOMAIN frame |-> frame[i].description_relevance],
              [i \in DOMAIN frame |-> frame[i].description_relevance_norm])

\* A frame was normalised in which a price, a rating and a number of
\* reviews lie strictly between the minimum and the maximum, and the
\* relevance differs between products.
C19_Witness ==
  /\ Framed
  /\ \E i \in DOMAIN frame :
       frame[i].price_norm.num > 0 /\ frame[i].price_norm.num < frame[i].price_norm.den
  /\ \E i \in DOMAIN frame :
       frame[i].rating_norm.num > 0 /\ frame[i].rating_norm.num < frame[i].rating_norm.den
  /\ \E i \in DOMAIN frame :
       frame[i].reviews_norm.num > 0 /\ frame[i].reviews_norm.num < frame[i].reviews_norm.den
  /\ \E i, j \in DOMAIN frame :
       frame[i].description_relevance_norm.num = 0
         /\ IsOne(frame[j].description_relevance_norm)

\* C20: in search_and_compare the ranking starts only when both adapter
\* tasks have finished, on the records of both, and a call that has
\* returned has run it exactly once.
C20_RankAfterBothOnce ==
  /\ [][calls' # calls =>
          /\ a_pc = "done" /\ amazon_future.done
          /\ s_pc = "done" /\ snapdeal_future.done
          /\ calls = 0 /\ calls' = 1
          /\ all_products' = amazon_future.value \o snapdeal_future.value]_vars
  /\ [](pc = "returned" => calls = 1)
  /\ [](calls = 1 => pc = "returned")

\* The Amazon task finished first and the Snapdeal task only after a
\* failed attempt, both with records, and the ranking ran on the records
\* of both.
C20_Witness ==
  /\ pc = "returned" /\ calls = 1
  /\ finished = <<"Amazon", "Snapdeal">>
  /\ attempt >= 1
  /\ snapdeal_future.value # <<>> /\ amazon_future.value # <<>>
  /\ Len(result.all_products)
       = Len(amazon_future.value) + Len(snapdeal_future.value)

Vocabulary == UNION {tokens(all_products[i].description) : i \in DOMAIN all_products}

\* C22: when the descriptions of the batch hold fewer than 2 distinct
\* terms, or none at all (the vectorizer fails), the relevance of every
\* product is 1.0 and the normalised relevance is the same for all.
C22_FewTermsRelevanceOne ==
  (Framed /\ Cardinality(Vocabulary) < 2) =>
    \A i \in DOMAIN frame :
      /\ frame[i].description_relevance = 1
      /\ frame[i].description_relevance_norm = frame[1].description_relevance_norm

\* The places of the digits of a text.
DigitPlaces(t) == {i \in DOMAIN t : IsDigit(t[i])}

\* The part of a text from its first digit to its last.
Numeral(t) == SubSeq(t, MinOf(DigitPlaces(t)), MaxOf(DigitPlaces(t)))

\* A decimal number as the sites write it: digits, commas between digits
\* of the integer part, at most one dot between two digits.
DecimalNumber(n) ==
  /\ \A i \in DOMAIN n : IsDigit(n[i]) \/ n[i] = "," \/ n[i] = "."
  /\ Cardinality({i \in DOMAIN n : n[i] = "."}) <= 1
  /\ \A i \in DOMAIN n :
       ~IsDigit(n[i]) => IsDigit(n[i - 1]) /\ IsDigit(n[i + 1])
  /\ \A i, j \in DOMAIN n : (n[i] = "." /\ n[j] = ",") => j < i

\* The text holds one decimal number, with a prefix and a suffix without
\* digits that do not touch it with a dot or a comma.
HoldsOneNumber(t) ==
  /\ DigitPlaces(t) # {}
  /\ DecimalNumber(Numeral(t))
  /\ \A i \in DOMAIN t :
       (i = MinOf(DigitPlaces(t)) - 1 \/ i = MaxOf(DigitPlaces(t)) + 1)
         => t[i] \notin {".", ","}

\* The number a text holds, as a fraction.
NumberHeld(t) == float_of(SelectSeq(Numeral(t), KeptInPrice))

\* C23: _clean_price of a text that holds one decimal number, with a
\* currency prefix or suffix and thousands separators, is that number and
\* is not negative; of a text without a digit it is None.
C23_CleanPriceIsTheNumber ==
  price_out # NoResult =>
    /\ HoldsOneNumber(price_str) =>
         /\ ~price_out.none
         /\ price_out.num >= 0 /\ price_out.den > 0
         /\ price_out.num * NumberHeld(price_str).den
              = NumberHeld(price_str).num * price_out.den
    /\ DigitPlaces(price_str) = {} => price_out.none

\* C24: the rating an adapter gives a record is a number in [0, 5].
C24_RatingInRange ==
  rating_out # NoResult =>
    /\ rating_out.rating.den > 0
    /\ 0 <= rating_out.rating.num
    /\ rating_out.rating.num <= 5 * rating_out.rating.den

\* ---------------------------------------------------------------------
\* PriceTracker: prices.db, its products, price history and price alerts.
\* ---------------------------------------------------------------------

\* The rows the calls may insert into price_history and price_alerts
\* together.
MaxRows == 4

\* The rows inserted so far: alert ids are never reused.
RowsInserted == Len(price_history) + (next_alert_id - 1)

Users == {"u1", "u2"}
ProductIds == {"B1", "B2"}
\* Python's None where a product id is expected (SQL NULL once bound).
NullId == "NULL"
\* A URL is the site its text names and the id the site's pattern finds in
\* it; NullId when the pattern does not match.
\* Flipkart and Snapdeal URLs take the path of Amazon URLs, with their own
\* extractor of the same shape.
Sites == {"amazon", "other"}
Urls == [site : Sites, id : ProductIds \cup {NullId}]
Prices == {1, 3}
Targets == {2, 3}
\* What the request brings back: a status, or an exception, and on a page
\* the price its price element holds (None when there is none).
Pages ==
  {[status |-> "200", price |-> p] : p \in Prices \cup {None}}
    \cup {[status |-> "other", price |-> None],
          [status |-> "raised", price |-> None]}

platform_of(site) ==
  CASE site = "amazon" -> "Amazon"
    [] site = "flipkart" -> "Flipkart"
    [] site = "snapdeal" -> "Snapdeal"
    [] OTHER -> ""

\* _extract_amazon_price, _extract_flipkart_price, _extract_snapdeal_price:
\* failure on a status other than 200 or an exception, success otherwise,
\* whatever the id and the price came to.
extract_price(url, page) ==
  IF page.status # "200"
    THEN [success |-> FALSE, product_id |-> NullId, platform |-> "",
          price |-> None]
    ELSE [success |-> TRUE, product_id |-> url.id,
          platform |-> platform_of(url.site), price |-> page.price]

\* The alerts a recorded price triggers: a.active = 1 AND
\* a.target_price >= price, of that product.
triggered_strict(alert, product_id, price) ==
  /\ alert.product_id = product_id
  /\ alert.active
  /\ alert.target_price > price

triggered(alert, product_id, price) ==
  /\ alert.product_id = product_id
  /\ alert.active
  /\ alert.target_price >= price

\* _save_product_data: the product row is updated or inserted, the price is
\* appended to price_history and the triggered alerts are marked inactive,
\* all in one transaction.  price_history.product_id and price_history.price
\* are NOT NULL: with either absent the INSERT raises, the except branch
\* prints, commit is never reached and the transaction is dropped.
save_fails(data) == data.product_id = NullId \/ data.price = None

\* The except branches never close the connection.  Until the interpreter
\* collects it, the connection of a failed save keeps its write lock, and
\* the first write of a later call raises "database is locked": whether it
\* is collected by then is the interpreter's choice.
Locked == IF stale_conn THEN BOOLEAN ELSE {FALSE}

save_product_data(data, db, locked) ==
  IF locked \/ save_fails(data)
    THEN db
    ELSE [products |->
            {p \in db.products : p.product_id # data.product_id}
              \cup {[product_id |-> data.product_id,
                     platform |-> data.platform]},
          price_history |->
            Append(db.price_history,
                   [product_id |-> data.product_id, price |-> data.price]),
          price_alerts |->
            {IF triggered(a, data.product_id, data.price)
               THEN [a EXCEPT !.active = FALSE] ELSE a
             : a \in db.price_alerts}]

\* track_product: the result of the call and the database after it.
track_product(url, page, db, locked) ==
  IF url.site = "other"
    THEN [result |-> [success |-> FALSE, product_id |-> NullId,
                      platform |-> "", price |-> None],
          db |-> db]
    ELSE LET data == extract_price(url, page)
         IN [result |-> data,
             db |-> IF data.success
                      THEN save_product_data(data, db, locked)
                      ELSE db]

TrackProduct ==
  /\ RowsInserted < MaxRows
  /\ \E url \in Urls, page \in Pages, locked \in Locked :
       LET out == track_product(url, page, TrackerDb, locked)
       IN /\ stale_conn' = IF out.result.success
                             THEN locked \/ save_fails(out.result)
                             ELSE stale_conn
          /\ products' = out.db.products
          /\ price_history' = out.db.price_history
          /\ price_alerts' = out.db.price_alerts
          /\ last_op' = [name |-> "track_product",
                         success |-> out.result.success,
                         product_id |-> out.result.product_id,
                         price |-> out.result.price,
                         user_id |-> "", alerts |-> {}]
  /\ UNCHANGED next_alert_id
  /\ UNCHANGED not_tracker_vars

\* set_price_alert: refused for a product that is not stored, and failing
\* when the INSERT meets the lock; otherwise a new active alert with the
\* next id.
SetPriceAlert ==
  /\ RowsInserted < MaxRows
  /\ \E u \in Users, pid \in ProductIds, t \in Targets, locked \in Locked :
       IF (\E p \in products : p.product_id = pid) /\ ~locked
         THEN /\ stale_conn' = FALSE
              /\ price_alerts' = price_alerts \cup
                   {[id |-> next_alert_id, user_id |-> u, product_id |-> pid,
                     target_price |-> t, active |-> TRUE]}
              /\ next_alert_id' = next_alert_id + 1
              /\ last_op' = [name |-> "set_price_alert", success |-> TRUE,
                             product_id |-> NullId, price |-> None,
                             user_id |-> "", alerts |-> {}]
         ELSE /\ UNCHANGED <<price_alerts, next_alert_id, stale_conn>>
              /\ last_op' = [name |-> "set_price_alert", success |-> FALSE,
                             product_id |-> NullId, price |-> None,
                             user_id |-> "", alerts |-> {}]
  /\ UNCHANGED <<products, price_history>>
  /\ UNCHANGED not_tracker_vars

\* delete_price_alert: the row with that id goes, success iff there was
\* one; failure when the DELETE meets the lock.
DeletePriceAlert ==
  /\ \E id \in 1..next_alert_id, locked \in Locked :
       /\ stale_conn' = locked
       /\ price_alerts' =
            IF locked THEN price_alerts
            ELSE {a \in price_alerts : a.id # id}
       /\ last_op' = [name |-> "delete_price_alert",
                      success |->
                        ~locked /\ (\E a \in price_alerts : a.id = id),
                      product_id |-> NullId, price |-> None,
                      user_id |-> "", alerts |-> {}]
  /\ UNCHANGED <<products, price_history, next_alert_id>>
  /\ UNCHANGED not_tracker_vars

\* get_user_alerts: the user's alerts with active = 1, joined to their
\* products.
get_user_alerts(u, db) ==
  {a \in db.price_alerts :
     /\ a.user_id = u
     /\ a.active
     /\ \E p \in db.products : p.product_id = a.product_id}

GetUserAlerts ==
  /\ \E u \in Users :
       last_op' = [name |-> "get_user_alerts", success |-> TRUE,
                   product_id |-> NullId, price |-> None,
                   user_id |-> u, alerts |-> get_user_alerts(u, TrackerDb)]
  /\ UNCHANGED <<products, price_history, price_alerts, next_alert_id,
                 stale_conn>>
  /\ UNCHANGED not_tracker_vars

InitTracker ==
  /\ ScraperIdle
  /\ CleanIdle
  /\ TrackerIdle
  /\ AccountIdle
  /\ AppIdle

NextTracker ==
  \/ TrackProduct
  \/ SetPriceAlert
  \/ DeletePriceAlert
  \/ GetUserAlerts

SpecTracker == InitTracker /\ [][NextTracker]_vars

\* C25: an alert is created active; it stays active until track_product
\* records, for its product, a price no greater than its target price, and
\* that recording marks it inactive; an alert whose target price is below
\* the recorded price stays active, an inactive alert never becomes active
\* again, and get_user_alerts returns exactly the user's active alerts.
C25_AlertActiveUntilPriceReached ==
  /\ [][\A b \in price_alerts' :
         IF \E a \in price_alerts : a.id = b.id
           THEN LET a == CHOOSE r \in price_alerts : r.id = b.id
                    recorded == Len(price_history') = Len(price_history) + 1
                    row == price_history'[Len(price_history')]
                IN b.active <=>
                     /\ a.active
                     /\ ~(/\ recorded
                          /\ row.product_id = a.product_id
                          /\ row.price <= a.target_price)
           ELSE b.active]_vars
  /\ [](last_op.name = "get_user_alerts" =>
         last_op.alerts =
           {a \in price_alerts : a.user_id = last_op.user_id /\ a.active})

\* A recorded price has triggered one alert of a product and left another
\* alert of the same product, with a lower target price, active.
C25_Witness ==
  /\ last_op.name = "track_product"
  /\ price_history # <<>>
  /\ LET row == price_history[Len(price_history)]
     IN \E a \in price_alerts, b \in price_alerts :
          /\ a.product_id = row.product_id /\ b.product_id = row.product_id
          /\ ~a.active /\ a.target_price >= row.price
          /\ b.active /\ b.target_price < row.price

\* C26: a track_product call that returns success has stored its product in
\* exactly one products row and added one price_history row with the price
\* it extracted; a call that returns failure has written nothing.
C26_SuccessMeansStored ==
  [][last_op'.name = "track_product" =>
       IF last_op'.success
         THEN /\ Cardinality({p \in products' :
                               p.product_id = last_op'.product_id}) = 1
              /\ price_history' =
                   Append(price_history,
                          [product_id |-> last_op'.product_id,
                           price |-> last_op'.price])
         ELSE UNCHANGED <<products, price_history, price_alerts>>]_vars

\* ---------------------------------------------------------------------
\* UserAccount: users.db, its users and the rows that belong to them.
\* ---------------------------------------------------------------------

\* The users register_user may create and the rows add_search_history may
\* insert.
MaxUsers == 2
MaxHistory == 2

Names == {"a", "b"}
Emails == {"x", "y"}
Passwords == {"p", "q"}
\* A key that the data of update_user_profile does not hold.
Absent == "-"
\* The user ids a caller may pass: those given out and those not yet.
UserIds == 1..MaxUsers
SavedProductIds == {"P1"}

\* _hash_password: the SHA-256 digest of the password, not the password.
hash_password(password) == <<"sha256", password>>

\* The four tables of users.db.
AccountDb ==
  [users |-> users, user_preferences |-> user_preferences,
   saved_products |-> saved_products,
   search_history |-> user_search_history]

\* As in PriceTracker no except branch closes its connection: after a write
\* that raised, a later write may meet "database is locked".
LockedUsers == IF users_stale THEN BOOLEAN ELSE {FALSE}

\* username TEXT UNIQUE NOT NULL, email TEXT UNIQUE NOT NULL: the INSERT or
\* UPDATE that would leave two rows with one username or one email raises
\* sqlite3.IntegrityError.
unique_violated_off(rows, row) == FALSE

unique_violated(rows, row) ==
  \E r \in rows :
    /\ r.user_id # row.user_id
    /\ (r.username = row.username \/ r.email = row.email)

Failed(call) == [name |-> call.op, success |-> FALSE, call |-> call]
Succeeded(call) == [name |-> call.op, success |-> TRUE, call |-> call]
\* A call has passed its checks and returned nothing yet.
Checked == [name |-> "checked", success |-> FALSE, call |-> NoCall]

\* register_user's SELECT: a row with the username or the email exists.
register_refused(call) ==
  \E r \in users : r.username = call.username \/ r.email = call.email

\* register_user from its INSERT on: the users row with a new id and the
\* hashed password, the user_preferences row, the commit; a lock or a
\* constraint raises and the except branch returns the failure.
RegisterWrite(call, locked) ==
  LET row == [user_id |-> next_user_id, username |-> call.username,
              email |-> call.email,
              password_hash |-> hash_password(call.password)]
  IN IF locked \/ unique_violated(users, row)
       THEN /\ account_op' = Failed(call)
            /\ users_stale' = TRUE
            /\ UNCHANGED <<users, user_preferences, next_user_id>>
       ELSE /\ account_op' = Succeeded([call EXCEPT !.user_id = next_user_id])
            /\ users_stale' = FALSE
            /\ users' = users \cup {row}
            /\ user_preferences' = user_preferences \cup {next_user_id}
            /\ next_user_id' = next_user_id + 1

RegisterCalls ==
  [op : {"register_user"}, user_id : {0}, username : Names, email : Emails,
   password : Passwords]

\* register_user, run with no other call between its SELECT and its INSERT.
RegisterUser ==
  /\ next_user_id <= MaxUsers
  /\ \E call \in RegisterCalls, locked \in LockedUsers :
       IF register_refused(call)
         THEN /\ account_op' = Failed(call)
              /\ UNCHANGED <<users, user_preferences, next_user_id,
                             users_stale>>
         ELSE RegisterWrite(call, locked)
  /\ UNCHANGED <<saved_products, user_search_history, pending>>
  /\ UNCHANGED not_account_vars

\* register_user up to its INSERT, when another call runs before the INSERT.
RegisterCheck ==
  /\ pending = NoCall
  /\ next_user_id <= MaxUsers
  /\ \E call \in RegisterCalls :
       /\ ~register_refused(call)
       /\ pending' = call
  /\ account_op' = Checked
  /\ UNCHANGED <<users, user_preferences, saved_products,
                 user_search_history, next_user_id, users_stale>>
  /\ UNCHANGED not_account_vars

\* The INSERT of the register_user that was waiting.
RegisterInsert ==
  /\ pending.op = "register_user"
  /\ next_user_id <= MaxUsers
  /\ \E locked \in LockedUsers : RegisterWrite(pending, locked)
  /\ pending' = NoCall
  /\ UNCHANGED <<saved_products, user_search_history>>
  /\ UNCHANGED not_account_vars

\* update_user_profile's SELECTs: another row holds the email, another row
\* holds the username, or the data holds neither key.
update_refused(call) ==
  \/ /\ call.email # Absent
     /\ \E r \in users : r.email = call.email /\ r.user_id # call.user_id
  \/ /\ call.username # Absent
     /\ \E r \in users :
          r.username = call.username /\ r.user_id # call.user_id
  \/ call.email = Absent /\ call.username = Absent

\* The row of a user after UPDATE users SET ... WHERE user_id = ?.
updated_row(r, call) ==
  [r EXCEPT !.email = IF call.email = Absent THEN @ ELSE call.email,
            !.username = IF call.username = Absent THEN @ ELSE call.username]

\* update_user_profile from its UPDATE on.
UpdateWrite(call, locked) ==
  LET hit == {r \in users : r.user_id = call.user_id}
  IN IF \/ locked
        \/ \E r \in hit : unique_violated(users, updated_row(r, call))
       THEN /\ account_op' = Failed(call)
            /\ users_stale' = TRUE
            /\ UNCHANGED users
       ELSE /\ account_op' = Succeeded(call)
            /\ users_stale' = FALSE
            /\ users' = (users \ hit) \cup {updated_row(r, call) : r \in hit}

UpdateCalls ==
  [op : {"update_user_profile"}, user_id : UserIds,
   username : Names \cup {Absent}, email : Emails \cup {Absent},
   password : {""}]

\* update_user_profile, run with no other call between its SELECTs and its
\* UPDATE.
UpdateUserProfile ==
  /\ \E call \in UpdateCalls, locked \in LockedUsers :
       IF update_refused(call)
         THEN /\ account_op' = Failed(call)
              /\ UNCHANGED <<users, users_stale>>
         ELSE UpdateWrite(call, locked)
  /\ UNCHANGED <<user_preferences, saved_products, user_search_history,
                 next_user_id, pending>>
  /\ UNCHANGED not_account_vars

\* update_user_profile up to its UPDATE, when another call runs before it.
UpdateCheck ==
  /\ pending = NoCall
  /\ \E call \in UpdateCalls :
       /\ ~update_refused(call)
       /\ pending' = call
  /\ account_op' = Checked
  /\ UNCHANGED <<users, user_preferences, saved_products,
                 user_search_history, next_user_id, users_stale>>
  /\ UNCHANGED not_account_vars

\* The UPDATE of the update_user_profile that was waiting.
UpdateRun ==
  /\ pending.op = "update_user_profile"
  /\ \E locked \in LockedUsers : UpdateWrite(pending, locked)
  /\ pending' = NoCall
  /\ UNCHANGED <<user_preferences, saved_products, user_search_history,
                 next_user_id>>
  /\ UNCHANGED not_account_vars

\* The four DELETE statements of delete_account.
delete_user_rows_keep_saved(db, id) ==
  [users |-> {r \in db.users : r.user_id # id},
   user_preferences |-> db.user_preferences \ {id},
   saved_products |-> db.saved_products,
   search_history |->
     SelectSeq(db.search_history, LAMBDA r : r.user_id # id)]

delete_user_rows(db, id) ==
  [users |-> {r \in db.users : r.user_id # id},
   user_preferences |-> db.user_preferences \ {id},
   saved_products |-> {r \in db.saved_products : r.user_id # id},
   search_history |->
     SelectSeq(db.search_history, LAMBDA r : r.user_id # id)]

\* delete_account: "Incorrect password" when there is no such user or the
\* hash differs; otherwise the rows of the user go from the four tables in
\* one transaction.
DeleteAccount ==
  /\ \E id \in UserIds, pw \in Passwords, locked \in LockedUsers :
       LET call == [op |-> "delete_account", user_id |-> id,
                    username |-> "", email |-> "", password |-> pw]
           db == delete_user_rows(AccountDb, id)
       IN IF ~\E r \in users :
                /\ r.user_id = id
                /\ r.password_hash = hash_password(pw)
            THEN /\ account_op' = Failed(call)
                 /\ UNCHANGED <<users, user_preferences, saved_products,
                                user_search_history, users_stale>>
            ELSE IF locked
              THEN /\ account_op' = Failed(call)
                   /\ UNCHANGED <<users, user_preferences, saved_products,
                                  user_search_history, users_stale>>
              ELSE /\ account_op' = Succeeded(call)
                   /\ users_stale' = FALSE
                   /\ users' = db.users
                   /\ user_preferences' = db.user_preferences
                   /\ saved_products' = db.saved_products
                   /\ user_search_history' = db.search_history
  /\ UNCHANGED <<next_user_id, pending>>
  /\ UNCHANGED not_account_vars

\* add_saved_product: refused for a user that is not stored; otherwise the
\* row of that user and product is written, new or over the old one.
AddSavedProduct ==
  /\ \E id \in UserIds, pid \in SavedProductIds, locked \in LockedUsers :
       LET call == [op |-> "add_saved_product", user_id |-> id,
                    username |-> "", email |-> "", password |-> ""]
       IN IF (\E r \in users : r.user_id = id) /\ ~locked
            THEN /\ account_op' = Succeeded(call)
                 /\ users_stale' = FALSE
                 /\ saved_products' = saved_products
                      \cup {[user_id |-> id, product_id |-> pid]}
            ELSE /\ account_op' = Failed(call)
                 /\ UNCHANGED <<saved_products, users_stale>>
  /\ UNCHANGED <<users, user_preferences, user_search_history, next_user_id,
                 pending>>
  /\ UNCHANGED not_account_vars

\* add_search_history: a row for the user id it is given, stored or not.
AddSearchHistory ==
  /\ Len(user_search_history) < MaxHistory
  /\ \E id \in UserIds, locked \in LockedUsers :
       LET call == [op |-> "add_search_history", user_id |-> id,
                    username |-> "", email |-> "", password |-> ""]
       IN IF locked
            THEN /\ account_op' = Failed(call)
                 /\ UNCHANGED <<user_search_history, users_stale>>
            ELSE /\ account_op' = Succeeded(call)
                 /\ users_stale' = FALSE
                 /\ user_search_history' =
                      Append(user_search_history,
                             [user_id |-> id, query |-> "q"])
  /\ UNCHANGED <<users, user_preferences, saved_products, next_user_id,
                 pending>>
  /\ UNCHANGED not_account_vars

InitAccount ==
  /\ ScraperIdle
  /\ CleanIdle
  /\ TrackerIdle
  /\ AccountIdle
  /\ AppIdle

\* Accounts and the rows that belong to them, one call at a time.
NextAccount ==
  \/ RegisterUser
  \/ DeleteAccount
  \/ AddSavedProduct
  \/ AddSearchHistory

SpecAccount == InitAccount /\ [][NextAccount]_vars

\* The calls that write the users table, one of them at a time possibly
\* between the checks and the write of another.
NextUsers ==
  \/ RegisterUser
  \/ RegisterCheck
  \/ RegisterInsert
  \/ UpdateUserProfile
  \/ UpdateCheck
  \/ UpdateRun
  \/ DeleteAccount

SpecUsers == InitAccount /\ [][NextUsers]_vars

\* The rows of the four tables that refer to a user.
RowsOf(db, id) ==
  [users |-> {r \in db.users : r.user_id = id},
   user_preferences |-> db.user_preferences \cap {id},
   saved_products |-> {r \in db.saved_products : r.user_id = id},
   search_history |->
     SelectSeq(db.search_history, LAMBDA r : r.user_id = id)]

\* C27: after delete_account returns success no row of users,
\* user_preferences, saved_products or search_history refers to the user
\* and the rows of every other user are as they were; with a wrong password
\* or a user that does not exist the call returns failure, and a call that
\* returns failure changes no table.
C27_DeleteAccountFrame ==
  [][account_op'.name = "delete_account" =>
       LET id == account_op'.call.user_id
           before == AccountDb
           after == [users |-> users',
                     user_preferences |-> user_preferences',
                     saved_products |-> saved_products',
                     search_history |-> user_search_history']
           known == \E r \in users :
                      /\ r.user_id = id
                      /\ r.password_hash =
                           hash_password(account_op'.call.password)
       IN /\ ~known => ~account_op'.success
          /\ IF account_op'.success
               THEN /\ RowsOf(after, id) =
                         [users |-> {}, user_preferences |-> {},
                          saved_products |-> {}, search_history |-> <<>>]
                    /\ \A other \in UserIds \ {id} :
                         RowsOf(after, other) = RowsOf(before, other)
               ELSE after = before]_vars

\* An account has just been deleted and another user is left with its
\* account, its preferences, a saved product and a search.
C27_Witness ==
  /\ account_op.name = "delete_account"
  /\ account_op.success
  /\ \E r \in users :
       /\ r.user_id # account_op.call.user_id
       /\ r.user_id \in user_preferences
       /\ \E p \in saved_products : p.user_id = r.user_id
       /\ \E i \in 1..Len(user_search_history) :
            user_search_history[i].user_id = r.user_id

\* The call would leave two users with one username or one email: a new
\* user, or a stored user given the username or the email of another.
WouldDuplicate(call) ==
  /\ call.op = "update_user_profile" =>
       \E t \in users : t.user_id = call.user_id
  /\ \E r \in users :
       /\ r.user_id # call.user_id
       /\ (r.username = call.username \/ r.email = call.email)

\* C28: whatever the order and the interleaving of register_user,
\* update_user_profile and delete_account, no two users share a username or
\* an email; a call that would create a duplicate returns failure, and a
\* call of the two that returns failure leaves users as it was.
C28_UsernamesAndEmailsUnique ==
  /\ [](\A u \in users, v \in users :
          u # v => u.username # v.username /\ u.email # v.email)
  /\ [][account_op'.name \in {"register_user", "update_user_profile"} =>
          /\ WouldDuplicate(account_op'.call) => ~account_op'.success
          /\ ~account_op'.success => users' = users]_vars

\* A register_user passed its check, another user then took the username or
\* the email, and the INSERT was refused by the table.
C28_Witness ==
  /\ account_op.name = "register_user"
  /\ ~account_op.success
  /\ users_stale
  /\ pending = NoCall
  /\ \E r \in users :
       \/ r.username = account_op.call.username
       \/ r.email = account_op.call.email

\* C30: when search_amazon has returned, the Chrome driver it started has
\* been quit, whichever step ended the search.
C30_DriverQuitBeforeReturn ==
  a_pc \in {"return", "done"} => driver # "open"

\* ---------------------------------------------------------------------
\* The page: the search history of the session.
\* ---------------------------------------------------------------------

\* The searches one session may make.
MaxSearches == 4

SearchQueries == {"shoe", "shirt", "Shoe"}
\* len(results.get('all_products', [])) of a search.
ResultCounts == {0, 2}

\* The queries of the entries, as the list comprehension reads them.
history_queries(history) == {history[i].query : i \in 1..Len(history)}

\* The end of search_products: the entry is appended unless an entry of the
\* history already has this query.
record_search_always(history, q, count, time) ==
  Append(history,
         [query |-> q, timestamp |-> time, results_count |-> count])

record_search(history, q, count, time) ==
  IF q \notin history_queries(history)
    THEN Append(history,
                [query |-> q, timestamp |-> time, results_count |-> count])
    ELSE history

\* search_products, called by the Search page for a non-empty query.
SearchProducts ==
  /\ now <= MaxSearches
  /\ \E q \in SearchQueries, count \in ResultCounts :
       search_history' = record_search(search_history, q, count, now)
  /\ now' = now + 1
  /\ UNCHANGED not_app_vars

\* The 'Clear History' button of the Search History page, shown when the
\* history is not empty.
ClearHistory ==
  /\ search_history # <<>>
  /\ search_history' = <<>>
  /\ UNCHANGED now
  /\ UNCHANGED not_app_vars

InitApp ==
  /\ ScraperIdle
  /\ CleanIdle
  /\ TrackerIdle
  /\ AccountIdle
  /\ AppIdle

NextApp ==
  \/ SearchProducts
  \/ ClearHistory

SpecApp == InitApp /\ [][NextApp]_vars

\* C29: the history of the session holds at most one entry for a query; a
\* search for a query that has an entry adds none and leaves the history as
\* it was, and 'Clear History' empties the history.
C29_OneEntryPerQuery ==
  /\ [](\A i \in 1..Len(search_history), j \in 1..Len(search_history) :
          search_history[i].query = search_history[j].query => i = j)
  /\ [][/\ now' # now =>
             \/ search_history' = search_history
             \/ /\ Len(search_history') = Len(search_history) + 1
                /\ SubSeq(search_history', 1, Len(search_history))
                     = search_history
                /\ search_history'[Len(search_history')].query
                     \notin history_queries(search_history)
        /\ now' = now /\ search_history' # search_history =>
             search_history' = <<>>]_vars

\* A query was searched twice: the second search, with another result
\* count, left the one entry of the first.
C29_Witness ==
  /\ Len(search_history) = 1
  /\ search_history[1].timestamp = 1
  /\ now = 3

====
